---------------------------- MODULE Spec2Model ----------------------------
(***************************************************************************)
(* A model of montecarlo.py: the Die, Game and Analyzer classes.           *)
(*                                                                         *)
(* A pandas DataFrame is a mutable object that is reached by reference, so *)
(* the tables live in a heap of objects and the attributes that hold a     *)
(* table (Game._results, Analyzer._df_results, the variable in which the   *)
(* caller keeps what Game.show returned) hold object ids.  The weights     *)
(* table of a Die is only ever rebound inside the Die, so it is kept as a  *)
(* value.  Python's None is the string "None" where a reference is stored  *)
(* and the empty tuple where a value is optional (Some(v) is <<v>>).       *)
(*                                                                         *)
(* Floats are modelled by integers: the weights that matter to the code    *)
(* are compared with zero, added and divided by their sum, and only the    *)
(* sign of the quotient decides what numpy.random.choice does.  The faces  *)
(* are integers; NaN and None faces (which DataFrame.stack would drop) are *)
(* outside the modelled alphabet.                                          *)
(***************************************************************************)
EXTENDS Integers, Sequences, FiniteSets, TLC

VARIABLES
    dice,       \* Game.dice: the list of Die objects, each given by its _df
    results,    \* Game._results: "None" or the id of the stored DataFrame
    heap,       \* the DataFrame objects, by id
    view,       \* the caller's variable holding what Game.show last returned
    analyzer,   \* the Analyzer object (constructed = FALSE before __init__)
    ret         \* the last call: its name, arguments, exception and value

vars == <<dice, results, heap, view, analyzer, ret>>

----------------------------------------------------------------------------
(* Bounds of the model *)

MaxRolls == 2       \* n_rolls ranges over 0 .. MaxRolls
MaxTallyRolls == 3  \* n_rolls of the single play whose rows are tallied
MaxWeight == 2      \* numeric weights given to change_weight: -1 .. MaxWeight

----------------------------------------------------------------------------
(* Python values *)

None == <<>>
Some(v) == <<v>>

Num(w) == [kind |-> "num", num |-> w, text |-> <<>>]
Str(s) == [kind |-> "str", num |-> 0, text |-> s]
PyNone == [kind |-> "none", num |-> 0, text |-> <<>>]

Range(s) == {s[i] : i \in 1 .. Len(s)}

RECURSIVE SumSeq(_)
SumSeq(s) == IF s = <<>> THEN 0 ELSE s[1] + SumSeq(Tail(s))

Digits == <<"0", "1", "2", "3", "4", "5", "6", "7", "8", "9">>

IsDigit(c) == \E i \in 1 .. Len(Digits) : Digits[i] = c

DigitVal(c) == (CHOOSE i \in 1 .. Len(Digits) : Digits[i] = c) - 1

RECURSIVE DecimalVal(_, _)
DecimalVal(cs, acc) ==
    IF cs = <<>> THEN acc
    ELSE DecimalVal(Tail(cs), acc * Len(Digits) + DigitVal(cs[1]))

\* float(x) as change_weight uses it: a number converts to itself; a string
\* converts when it is an optionally signed run of digits and raises ValueError
\* otherwise; None raises TypeError.
Float(x) ==
    CASE x.kind = "num" -> [exc |-> "None", val |-> x.num]
      [] x.kind = "none" -> [exc |-> "TypeError", val |-> 0]
      [] OTHER ->
            LET neg == x.text # <<>> /\ x.text[1] = "-"
                body == IF neg THEN Tail(x.text) ELSE x.text
            IN  IF body # <<>> /\ \A i \in 1 .. Len(body) : IsDigit(body[i])
                THEN [exc |-> "None",
                      val |-> IF neg THEN 0 - DecimalVal(body, 0)
                              ELSE DecimalVal(body, 0)]
                ELSE [exc |-> "ValueError", val |-> 0]

----------------------------------------------------------------------------
(* Die *)

FacesAB == <<1, 2>>
FacesC == <<3>>

\* Die.__init__ for an array of distinct faces: every weight is 1.0
DieInit(faces) == [i \in 1 .. Len(faces) |-> [face |-> faces[i], weight |-> 1]]

DieFaces(df) == [i \in 1 .. Len(df) |-> df[i].face]

DieWeights(df) == [i \in 1 .. Len(df) |-> df[i].weight]

\* A faulty variant of SetAt: the whole weight column is assigned.
SetAtAllRows(df, face, w) == [i \in 1 .. Len(df) |-> [df[i] EXCEPT !.weight = w]]

\* self._df.at[face, 'weight'] = w, for a face of the index
SetAt(df, face, w) ==
    [i \in 1 .. Len(df) |->
        IF df[i].face = face THEN [df[i] EXCEPT !.weight = w] ELSE df[i]]

\* The outcome of change_weight(face, new_weight) on a die
ChangeWeightResult(df, face, new_weight) ==
    IF face \notin Range(DieFaces(df))
    THEN [exc |-> "IndexError", df |-> df]
    ELSE LET f == Float(new_weight)
         IN  CASE f.exc = "ValueError" -> [exc |-> "TypeError", df |-> df]
               [] f.exc = "TypeError" -> [exc |-> "TypeError", df |-> df]
               [] OTHER -> [exc |-> "None", df |-> SetAt(df, face, f.val)]

Sign(x) == IF x > 0 THEN 1 ELSE IF x < 0 THEN 0 - 1 ELSE 0

\* probabilities = weights / weights.sum(): the sign of each quotient (a zero
\* sum gives NaN or an infinity, which numpy.random.choice rejects)
ProbSign(df, i) == Sign(df[i].weight) * Sign(SumSeq(DieWeights(df)))

\* numpy.random.choice raises ValueError for probabilities that contain NaN
\* or a negative entry
RollRaises(df) ==
    \/ SumSeq(DieWeights(df)) = 0
    \/ \E i \in 1 .. Len(df) : ProbSign(df, i) < 0

\* The faces numpy.random.choice can draw: those of positive probability
RollSupport(df) == {df[i].face : i \in {j \in 1 .. Len(df) : ProbSign(df, j) > 0}}

\* The lists Die.roll(n) can return
RollOutcomes(df, n) == [1 .. n -> RollSupport(df)]

----------------------------------------------------------------------------
(* DataFrame objects and references *)

ObjIds == {"df_game", "df_view", "df_analyzer"}

NoFrame == [kind |-> "none"]

\* An id for a newly created object: one that no other holder refers to.
\* The name of an object carries no meaning, so the holder's usual name is
\* taken whenever nobody else holds it.
Fresh(pref, others) ==
    IF pref \notin others THEN pref ELSE CHOOSE i \in ObjIds : i \notin others

\* Reference counting: an object nobody refers to is gone.
Collect(h, live) == [i \in ObjIds |-> IF i \in live THEN h[i] ELSE NoFrame]

\* pd.DataFrame(all_results) for a dict {i: list}: one column per key, one
\* row per list position, RangeIndex 0 .. n-1; no key gives no row
DataFrame(all_results) ==
    LET k == Len(all_results)
        n == IF k = 0 THEN 0 ELSE Len(all_results[1])
    IN  [kind |-> "wide",
         index |-> [r \in 1 .. n |-> r - 1],
         columns |-> [c \in 1 .. k |-> c - 1],
         data |-> [r \in 1 .. n |-> [c \in 1 .. k |-> all_results[c][r]]]]

\* self._results.stack(), its index levels named roll_number and die_number,
\* wrapped as pd.DataFrame(narrow, columns=['outcome'])
Stack(df) ==
    LET n == Len(df.index)
        k == Len(df.columns)
    IN  [kind |-> "narrow",
         index |-> [j \in 1 .. n * k |->
                      <<df.index[((j - 1) \div k) + 1], df.columns[((j - 1) % k) + 1]>>],
         columns |-> <<"outcome">>,
         data |-> [j \in 1 .. n * k |->
                      <<df.data[((j - 1) \div k) + 1][((j - 1) % k) + 1]>>]]

\* A faulty variant of CopyRef: the stored object itself is handed out.
AliasRef(src, fresh) == src

\* self._results.copy(): the reference returned is to a new object
CopyRef(src, fresh) == fresh

----------------------------------------------------------------------------
(* Game *)

\* The table Game._results refers to
GameTable == IF results = "None" THEN NoFrame ELSE heap[results]

\* The first die of the list whose roll raises, 0 when none does
FirstFailing(ds) ==
    IF \E i \in 1 .. Len(ds) : RollRaises(ds[i])
    THEN CHOOSE i \in 1 .. Len(ds) :
            /\ RollRaises(ds[i])
            /\ \A j \in 1 .. i - 1 : ~RollRaises(ds[j])
    ELSE 0

\* The values all_results can hold after the loop has rolled dice 1 .. m
RECURSIVE ColumnChoices(_, _, _)
ColumnChoices(ds, m, n) ==
    IF m = 0 THEN {<<>>}
    ELSE {Append(p, c) : p \in ColumnChoices(ds, m - 1, n),
                         c \in RollOutcomes(ds[m], n)}

\* A faulty variant of PlayAssigns: the assignment is made although a roll raised.
PlayAssignsAlways(fail) == TRUE

\* Whether play reaches the assignment of self._results, which follows the loop
PlayAssigns(fail) == fail = 0

\* A faulty variant of NewResults: the new rows are appended to the stored ones.
NewResultsAppended(old, fresh) ==
    IF old.kind = "wide" /\ Len(old.columns) = Len(fresh.columns)
    THEN [fresh EXCEPT !.index = [r \in 1 .. Len(old.index) + Len(fresh.index) |-> r - 1],
                       !.data = old.data \o fresh.data]
    ELSE fresh

\* self._results = pd.DataFrame(all_results): the stored table is replaced
NewResults(old, fresh) == fresh

\* Game.play(n_rolls)
Play(n) ==
    LET fail == FirstFailing(dice)
        m == IF fail = 0 THEN Len(dice) ELSE fail - 1
    IN  \E cols \in ColumnChoices(dice, m, n) :
           /\ IF PlayAssigns(fail)
              THEN LET id == Fresh("df_game", {view, analyzer.df_results})
                   IN  /\ results' = id
                       /\ heap' = Collect(
                             [heap EXCEPT ![id] = NewResults(GameTable, DataFrame(cols))],
                             {id, view, analyzer.df_results})
              ELSE UNCHANGED <<results, heap>>
           /\ ret' = [op |-> "Game.play", args |-> <<n>>,
                      exc |-> IF fail = 0 THEN "None" ELSE "ValueError",
                      val |-> None]
           /\ UNCHANGED <<dice, view, analyzer>>

\* Game.show(form); with keep the caller stores the result in a variable
Show(form, keep) ==
    /\ UNCHANGED <<dice, results, analyzer>>
    /\ IF results = "None"
       THEN /\ view' = IF keep THEN "None" ELSE view
            /\ heap' = Collect(heap, {results, view', analyzer.df_results})
            /\ ret' = [op |-> "Game.show", args |-> <<form>>, exc |-> "None",
                       val |-> None]
       ELSE IF form \in {"wide", "narrow"}
       THEN LET new == Fresh("df_view",
                             {results, analyzer.df_results} \cup (IF keep THEN {} ELSE {view}))
                id == IF form = "wide" THEN CopyRef(results, new) ELSE new
                h == [heap EXCEPT
                         ![id] = IF form = "wide" THEN heap[results] ELSE Stack(heap[results])]
            IN  /\ view' = IF keep THEN id ELSE view
                /\ heap' = Collect(h, {results, view', analyzer.df_results})
                /\ ret' = [op |-> "Game.show", args |-> <<form>>, exc |-> "None",
                           val |-> Some(h[id])]
       ELSE /\ UNCHANGED <<view, heap>>
            /\ ret' = [op |-> "Game.show", args |-> <<form>>, exc |-> "ValueError",
                       val |-> None]

\* The caller assigns to a cell of the DataFrame that show returned
MutateView(r, c, v) ==
    /\ view # "None"
    /\ r \in 1 .. Len(heap[view].data)
    /\ c \in 1 .. Len(heap[view].columns)
    /\ heap' = [heap EXCEPT ![view].data[r][c] = v]
    /\ ret' = [op |-> "caller.setitem", args |-> <<r, c, v>>, exc |-> "None",
               val |-> None]
    /\ UNCHANGED <<dice, results, view, analyzer>>

----------------------------------------------------------------------------
(* Die operations, on die d of the list *)

ChangeWeight(d, face, new_weight) ==
    LET res == ChangeWeightResult(dice[d], face, new_weight)
    IN  /\ dice' = [dice EXCEPT ![d] = res.df]
        /\ ret' = [op |-> "Die.change_weight", args |-> <<d, face, new_weight>>,
                   exc |-> res.exc, val |-> None]
        /\ UNCHANGED <<results, heap, view, analyzer>>

DieRoll(d, n) ==
    /\ IF RollRaises(dice[d])
       THEN ret' = [op |-> "Die.roll", args |-> <<d, n>>, exc |-> "ValueError",
                    val |-> None]
       ELSE \E out \in RollOutcomes(dice[d], n) :
               ret' = [op |-> "Die.roll", args |-> <<d, n>>, exc |-> "None",
                       val |-> Some(out)]
    /\ UNCHANGED <<dice, results, heap, view, analyzer>>

DieShow(d) ==
    /\ ret' = [op |-> "Die.show", args |-> <<d>>, exc |-> "None",
               val |-> Some(dice[d])]
    /\ UNCHANGED <<dice, results, heap, view, analyzer>>

----------------------------------------------------------------------------
(* Analyzer *)

NoAnalyzer ==
    [constructed |-> FALSE, df_results |-> "None", jackpot_count |-> None,
     face_counts |-> None, combo_counts |-> None, permutation_counts |-> None]

\* Analyzer(arg): arg is the Game or some other object
NewAnalyzer(arg) ==
    /\ IF arg # "Game"
       THEN /\ UNCHANGED <<analyzer, heap>>
            /\ ret' = [op |-> "Analyzer.__init__", args |-> <<arg>>,
                       exc |-> "ValueError", val |-> None]
       ELSE LET id == IF results = "None" THEN "None"
                      ELSE CopyRef(results, Fresh("df_analyzer", {results, view}))
                h == IF id = "None" THEN heap ELSE [heap EXCEPT ![id] = heap[results]]
            IN  /\ analyzer' = [NoAnalyzer EXCEPT !.constructed = TRUE,
                                                  !.df_results = id]
                /\ heap' = Collect(h, {results, view, id})
                /\ ret' = [op |-> "Analyzer.__init__", args |-> <<arg>>,
                           exc |-> "None", val |-> None]
    /\ UNCHANGED <<dice, results, view>>

\* A faulty variant of AnalyzerTable: the game is asked again for its table.
AnalyzerTableRequeried == GameTable

\* df = self._df_results
AnalyzerTable ==
    IF analyzer.df_results = "None" THEN NoFrame ELSE heap[analyzer.df_results]

\* A faulty variant of RowIsJackpot: any row with an outcome counts.
RowHasOutcome(row) == Cardinality(Range(row)) >= 1

\* lambda x: len(set(x)) == 1
RowIsJackpot(row) == Cardinality(Range(row)) = 1

\* df.apply(..., axis=1).sum(); the sum over no row is 0
JackpotCount(df) ==
    SumSeq([r \in 1 .. Len(df.data) |-> IF RowIsJackpot(df.data[r]) THEN 1 ELSE 0])

\* df.values.ravel(): the cells row by row
RECURSIVE Ravel(_)
Ravel(rows) == IF rows = <<>> THEN <<>> ELSE rows[1] \o Ravel(Tail(rows))

\* pd.unique: the distinct values in order of first appearance
RECURSIVE Unique(_)
Unique(s) ==
    IF s = <<>> THEN <<>>
    ELSE LET init == Unique(SubSeq(s, 1, Len(s) - 1))
             last == s[Len(s)]
         IN  IF last \in Range(init) THEN init ELSE Append(init, last)

\* The table face_counts_per_roll builds
FaceCounts(df) ==
    LET unique_faces == Unique(Ravel(df.data))
    IN  [kind |-> "face_counts",
         index |-> df.index,
         columns |-> unique_faces,
         data |-> [r \in 1 .. Len(df.data) |->
                     [j \in 1 .. Len(unique_faces) |->
                        Cardinality({c \in 1 .. Len(df.data[r]) :
                                        df.data[r][c] = unique_faces[j]})]]]

\* Series.value_counts(): each distinct key with the number of rows that
\* have it (the order of the keys is not modelled)
ValueCounts(keys) ==
    [k \in Range(keys) |-> Cardinality({r \in 1 .. Len(keys) : keys[r] = k})]

\* A faulty variant of ComboKey: the row is not sorted.
ComboKeyUnsorted(row) == row

\* lambda x: tuple(sorted(x))
ComboKey(row) == SortSeq(row, LAMBDA a, b : a < b)

\* lambda x: tuple(x)
PermutationKey(row) == row

ComboCounts(df) == ValueCounts([r \in 1 .. Len(df.data) |-> ComboKey(df.data[r])])

PermutationCounts(df) ==
    ValueCounts([r \in 1 .. Len(df.data) |-> PermutationKey(df.data[r])])

\* A method of the Analyzer that reads self._df_results: with None there the
\* attribute access raises AttributeError and nothing is stored
AnalyzerCall(op, field, value) ==
    /\ analyzer.constructed
    /\ IF AnalyzerTable.kind = "none"
       THEN /\ UNCHANGED analyzer
            /\ ret' = [op |-> op, args |-> <<>>, exc |-> "AttributeError",
                       val |-> None]
       ELSE /\ analyzer' = [analyzer EXCEPT ![field] = Some(value)]
            /\ ret' = [op |-> op, args |-> <<>>, exc |-> "None", val |-> Some(value)]
    /\ UNCHANGED <<dice, results, heap, view>>

Jackpot ==
    AnalyzerCall("Analyzer.jackpot", "jackpot_count",
                 IF AnalyzerTable.kind = "none" THEN 0 ELSE JackpotCount(AnalyzerTable))

FaceCountsPerRoll ==
    AnalyzerCall("Analyzer.face_counts_per_roll", "face_counts",
                 IF AnalyzerTable.kind = "none" THEN 0 ELSE FaceCounts(AnalyzerTable))

Combo ==
    AnalyzerCall("Analyzer.combo", "combo_counts",
                 IF AnalyzerTable.kind = "none" THEN 0 ELSE ComboCounts(AnalyzerTable))

Permutation ==
    AnalyzerCall("Analyzer.permutation", "permutation_counts",
                 IF AnalyzerTable.kind = "none" THEN 0
                 ELSE PermutationCounts(AnalyzerTable))

----------------------------------------------------------------------------
(* Specifications *)

ConfigMixed == <<FacesAB, FacesC>>
ConfigPair == <<FacesAB, FacesAB>>

\* The state after Game([Die(faces), ...]) for the face arrays of cfg
InitWith(cfg) ==
    /\ dice = [i \in 1 .. Len(cfg) |-> DieInit(cfg[i])]
    /\ results = "None"
    /\ heap = [i \in ObjIds |-> NoFrame]
    /\ view = "None"
    /\ analyzer = NoAnalyzer
    /\ ret = [op |-> "Game.__init__", args |-> <<>>, exc |-> "None", val |-> None]

AllFaces == {1, 2, 3}
Forms == {"wide", "narrow", "invalid"}
WeightInputs ==
    {Num(w) : w \in (0 - 1) .. MaxWeight}
        \cup {Str(<<"2">>), Str(<<"-", "1">>), Str(<<"a", "b", "c">>), Str(<<>>), PyNone}
SignInputs == {Num(0 - 1), Num(0), Num(1)}
ZeroOneInputs == {Num(0), Num(1)}

\* The dice on their own
InitDie == InitWith(ConfigMixed)

NextDie ==
    \/ \E d \in 1 .. Len(dice), face \in AllFaces, w \in WeightInputs :
          ChangeWeight(d, face, w)
    \/ \E d \in 1 .. Len(dice), n \in 0 .. MaxRolls : DieRoll(d, n)
    \/ \E d \in 1 .. Len(dice) : DieShow(d)

SpecDie == InitDie /\ [][NextDie]_vars

\* The game: weights are changed, the game is played and shown
InitGame == InitWith(ConfigMixed)

NextGame ==
    \/ \E d \in 1 .. Len(dice) :
          \E face \in Range(DieFaces(dice[d])), w \in SignInputs :
             ChangeWeight(d, face, w)
    \/ \E n \in 0 .. MaxRolls : Play(n)
    \/ \E form \in Forms : Show(form, FALSE)

SpecGame == InitGame /\ [][NextGame]_vars

\* The caller keeps the tables show returns and writes into them
InitView == InitWith(ConfigMixed)

NextView ==
    \/ \E n \in 0 .. MaxRolls : Play(n)
    \/ \E form \in Forms : Show(form, TRUE)
    \/ \E c \in 1 .. Len(dice) : MutateView(1, c, 9)
    \/ \E arg \in {"Game", "other"} : NewAnalyzer(arg)

SpecView == InitView /\ [][NextView]_vars

AnalyzerOps ==
    {"Analyzer.jackpot", "Analyzer.face_counts_per_roll", "Analyzer.combo",
     "Analyzer.permutation"}

\* Analyzers are constructed and used while the game goes on
InitSnapshot == InitWith(ConfigMixed)

NextSnapshot ==
    \/ \E d \in 1 .. Len(dice) :
          \E face \in Range(DieFaces(dice[d])), w \in ZeroOneInputs :
             ChangeWeight(d, face, w)
    \/ \E n \in 0 .. MaxRolls : Play(n)
    \/ NewAnalyzer("Game")
    \/ Jackpot
    \/ FaceCountsPerRoll
    \/ Combo
    \/ Permutation

SpecSnapshot == InitSnapshot /\ [][NextSnapshot]_vars

\* Two dice over {1, 2}: the weights are set, the game is played once, an
\* Analyzer is constructed and its tallies are taken
InitTally == InitWith(ConfigPair)

NextTally ==
    \/ /\ results = "None"
       /\ \E d \in 1 .. Len(dice) :
             \E face \in Range(DieFaces(dice[d])), w \in ZeroOneInputs :
                ChangeWeight(d, face, w)
    \/ /\ results = "None"
       /\ \E n \in 0 .. MaxTallyRolls : Play(n)
    \/ /\ results # "None"
       /\ ~analyzer.constructed
       /\ NewAnalyzer("Game")
    \/ Jackpot
    \/ Combo
    \/ Permutation

SpecTally == InitTally /\ [][NextTally]_vars

----------------------------------------------------------------------------
(* Claims about the Die, under SpecDie *)

\* The number a change_weight argument stands for, read off the inputs
DenotedNumber(w) ==
    CASE w.kind = "num" -> Some(w.num)
      [] w.kind = "str" /\ w.text = <<"2">> -> Some(2)
      [] w.kind = "str" /\ w.text = <<"-", "1">> -> Some(0 - 1)
      [] OTHER -> None

\* C6: change_weight(face, w) changes only the named face: on success that
\* face's weight becomes w, every other weight and the faces and their order
\* stay; a face that is not in the die gives IndexError, a w that is no number
\* gives TypeError, and a failed call changes no weight.
C6_ChangeWeightOnlyNamedFace ==
    [][ret'.op = "Die.change_weight" =>
         LET d == ret'.args[1]
             face == ret'.args[2]
             w == ret'.args[3]
             known == \E i \in 1 .. Len(dice[d]) : dice[d][i].face = face
         IN  /\ \A e \in 1 .. Len(dice) : e # d => dice'[e] = dice[e]
             /\ DieFaces(dice'[d]) = DieFaces(dice[d])
             /\ ~known => ret'.exc = "IndexError"
             /\ (known /\ DenotedNumber(w) = None) => ret'.exc = "TypeError"
             /\ (known /\ DenotedNumber(w) # None) => ret'.exc = "None"
             /\ ret'.exc # "None" => dice' = dice
             /\ ret'.exc = "None" =>
                   \A i \in 1 .. Len(dice[d]) :
                      dice'[d][i].weight =
                         IF dice[d][i].face = face THEN DenotedNumber(w)[1]
                         ELSE dice[d][i].weight
    ]_vars

\* A successful change of face 1 of the first die to 2 while its other face
\* holds a different, earlier changed weight
C6_Witness ==
    /\ ret.op = "Die.change_weight"
    /\ ret.exc = "None"
    /\ ret.args[1] = 1
    /\ ret.args[2] = 1
    /\ dice[1][1].weight = 2
    /\ dice[1][2].weight = 0

\* C7: in every reachable state of a Die every face has exactly one weight
\* entry and that weight is a non-negative number.
C7_WeightsNonNegative ==
    \A d \in 1 .. Len(dice) :
       /\ Cardinality(Range(DieFaces(dice[d]))) = Len(dice[d])
       /\ \A i \in 1 .. Len(dice[d]) : dice[d][i].weight >= 0

----------------------------------------------------------------------------
(* Claims about the Game, under SpecGame *)

\* C1: Game.show(form) raises ValueError for every form other than 'wide' and
\* 'narrow', after a play and before any play.
C1_ShowRejectsUnknownForm ==
    (ret.op = "Game.show" /\ ret.args[1] \notin {"wide", "narrow"})
        => ret.exc = "ValueError"

\* C3: a play call that fails because a die's roll raises leaves the stored
\* table as it was; a game without a table still has none.
C3_FailedPlayKeepsTable ==
    [][(ret'.op = "Game.play" /\ ret'.exc # "None")
          => (results' = results /\ GameTable' = GameTable)]_vars

\* A play has failed at the second die (the first was rolled) while a
\* non-empty table of an earlier play is stored
C3_Witness ==
    /\ ret.op = "Game.play"
    /\ ret.exc = "ValueError"
    /\ results # "None"
    /\ Len(GameTable.data) > 0
    /\ FirstFailing(dice) = 2

\* The table of play(n): n rows numbered from 0, a column per die, a cell per
\* die in every row, each cell a face of its die
IsTableOfPlay(t, n) ==
    /\ t.kind = "wide"
    /\ t.index = [r \in 1 .. n |-> r - 1]
    /\ t.columns = [c \in 1 .. Len(dice) |-> c - 1]
    /\ Len(t.data) = n
    /\ \A r \in 1 .. n :
          /\ Len(t.data[r]) = Len(dice)
          /\ \A c \in 1 .. Len(dice) :
                \E i \in 1 .. Len(dice[c]) : dice[c][i].face = t.data[r][c]

\* What show must return for the stored table t
IsShownTable(t, form, shown) ==
    LET n == Len(t.data)
        k == Len(dice)
    IN  IF form = "wide" THEN shown = t
        ELSE /\ shown.kind = "narrow"
             /\ Len(shown.data) = n * k
             /\ Len(shown.index) = n * k
             /\ \A r \in 1 .. n : \A c \in 1 .. k :
                   /\ shown.index[(r - 1) * k + c] = <<r - 1, c - 1>>
                   /\ shown.data[(r - 1) * k + c] = <<t.data[r][c]>>

\* C4: the stored table is the one of the most recent successful play(n): n
\* rows and len(dice) columns, a cell per die in every row, each cell of
\* column i a face of die i; it stays until the next play; show('wide')
\* returns it and show('narrow') returns its n * len(dice) cells indexed by
\* (roll number, die number), rolls first; play(0) gives a table without rows.
C4_TableOfLastPlay ==
    /\ [][(ret'.op = "Game.play" /\ ret'.exc = "None")
             => IsTableOfPlay(GameTable', ret'.args[1])]_vars
    /\ [][ret'.op # "Game.play" => GameTable' = GameTable]_vars
    /\ [](results # "None" => IsTableOfPlay(GameTable, Len(GameTable.data)))
    /\ []((ret.op = "Game.show" /\ ret.exc = "None" /\ results # "None")
             => IsShownTable(GameTable, ret.args[1], ret.val[1]))

\* show('narrow') has returned the four cells of a stored table of two rolls
C4_Witness ==
    /\ ret.op = "Game.show"
    /\ ret.exc = "None"
    /\ ret.args[1] = "narrow"
    /\ results # "None"
    /\ Len(GameTable.data) = 2
    /\ Len(ret.val[1].data) = 4

\* C10: show hands out independent copies: two successive show('wide') calls
\* return equal tables, and nothing the caller writes into a returned table
\* changes the stored table, what a later show returns or what an Analyzer
\* constructed later sees.
C10_ShowReturnsCopies ==
    /\ [][(/\ ret.op = "Game.show" /\ ret.exc = "None" /\ ret.args[1] = "wide"
           /\ ret'.op = "Game.show" /\ ret'.exc = "None" /\ ret'.args[1] = "wide")
             => ret'.val = ret.val]_vars
    /\ [][ret'.op = "caller.setitem"
             => (GameTable' = GameTable /\ AnalyzerTable' = AnalyzerTable)]_vars
    /\ [](results # "None" => IsTableOfPlay(GameTable, Len(GameTable.data)))
    /\ []((ret.op = "Game.show" /\ ret.exc = "None" /\ results # "None")
             => IsShownTable(GameTable, ret.args[1], ret.val[1]))
    /\ []((ret.op = "Analyzer.__init__" /\ ret.exc = "None" /\ results # "None")
             => AnalyzerTable = GameTable)

\* The caller holds a wide table it has written into, and an Analyzer
\* constructed after that holds the table as it was played
C10_Witness ==
    /\ ret.op = "Analyzer.__init__"
    /\ ret.exc = "None"
    /\ results # "None"
    /\ view # "None"
    /\ heap[view].kind = "wide"
    /\ Len(heap[view].data) > 0
    /\ heap[view].data[1][1] = 9
    /\ AnalyzerTable = GameTable

----------------------------------------------------------------------------
(* Claims about the Analyzer's snapshot, under SpecSnapshot *)

\* C2: after an Analyzer has been constructed from a played game, later play
\* and change_weight calls leave its table as it was, so what jackpot,
\* face_counts_per_roll, combo and permutation returned earlier is what they
\* return now; and none of the four changes the game's table or the weights.
C2_PointInTimeView ==
    /\ [][(analyzer.constructed /\ analyzer.df_results # "None"
              /\ ret'.op # "Analyzer.__init__")
             => AnalyzerTable' = AnalyzerTable]_vars
    /\ []((analyzer.constructed /\ analyzer.df_results # "None") =>
             /\ analyzer.jackpot_count # None
                   => analyzer.jackpot_count[1] = JackpotCount(AnalyzerTable)
             /\ analyzer.face_counts # None
                   => analyzer.face_counts[1] = FaceCounts(AnalyzerTable)
             /\ analyzer.combo_counts # None
                   => analyzer.combo_counts[1] = ComboCounts(AnalyzerTable)
             /\ analyzer.permutation_counts # None
                   => analyzer.permutation_counts[1] = PermutationCounts(AnalyzerTable))
    /\ [][ret'.op \in AnalyzerOps
             => (results' = results /\ GameTable' = GameTable /\ dice' = dice)]_vars

\* jackpot is called on an Analyzer whose combo was taken earlier, after the
\* game has been played again with another outcome and a weight has changed
C2_Witness ==
    /\ ret.op = "Analyzer.jackpot"
    /\ ret.exc = "None"
    /\ analyzer.combo_counts # None
    /\ results # "None"
    /\ AnalyzerTable # GameTable
    /\ Len(AnalyzerTable.data) > 0
    /\ \E d \in 1 .. Len(dice) : \E i \in 1 .. Len(dice[d]) : dice[d][i].weight = 0

\* C5: an Analyzer constructed from a game that was never played holds an
\* empty table, not an absent one, and its four operations do not fail.
C5_UnplayedAnalyzerUsable ==
    analyzer.constructed =>
       /\ analyzer.df_results # "None"
       /\ ret.op \in AnalyzerOps => ret.exc = "None"

----------------------------------------------------------------------------
(* Claims about the tallies, under SpecTally *)

UniformRows(t) ==
    {r \in 1 .. Len(t.data) :
        \A c1, c2 \in 1 .. Len(t.data[r]) : t.data[r][c1] = t.data[r][c2]}

CountOf(v, s) == Cardinality({i \in 1 .. Len(s) : s[i] = v})

IsReordering(a, b) ==
    /\ Len(a) = Len(b)
    /\ \A v \in Range(a) \cup Range(b) : CountOf(v, a) = CountOf(v, b)

IsAscending(k) == \A i \in 1 .. Len(k) - 1 : k[i] <= k[i + 1]

RECURSIVE SumOver(_, _)
SumOver(f, S) ==
    IF S = {} THEN 0
    ELSE LET x == CHOOSE y \in S : TRUE IN f[x] + SumOver(f, S \ {x})

\* C9: combo() tallies the rows by their outcomes sorted ascending and
\* permutation() by their outcomes in die order: reordered rows share a combo
\* key and keep distinct permutation keys, a combo key's count is the sum of
\* the counts of the permutation keys that sort to it, and each table's
\* counts sum to the number of rows; rows (1,2),(2,1),(1,1) give combo
\* (1,2)->2, (1,1)->1 and three permutation keys of count 1.
C9_ComboAndPermutationTallies ==
    (/\ analyzer.constructed
     /\ analyzer.combo_counts # None
     /\ analyzer.permutation_counts # None) =>
       LET rows == AnalyzerTable.data
           combo == analyzer.combo_counts[1]
           perm == analyzer.permutation_counts[1]
       IN  /\ DOMAIN perm = Range(rows)
           /\ \A p \in DOMAIN perm : perm[p] = CountOf(p, rows)
           /\ \A k \in DOMAIN combo :
                 /\ IsAscending(k)
                 /\ \E r \in 1 .. Len(rows) : IsReordering(k, rows[r])
                 /\ combo[k] = SumOver(perm, {p \in DOMAIN perm : IsReordering(p, k)})
           /\ \A r \in 1 .. Len(rows) :
                 Cardinality({k \in DOMAIN combo : IsReordering(k, rows[r])}) = 1
           /\ SumOver(combo, DOMAIN combo) = Len(rows)
           /\ SumOver(perm, DOMAIN perm) = Len(rows)
           /\ rows = <<<<1, 2>>, <<2, 1>>, <<1, 1>>>> =>
                 /\ combo = [k \in {<<1, 2>>, <<1, 1>>} |->
                               IF k = <<1, 2>> THEN 2 ELSE 1]
                 /\ perm = [p \in {<<1, 2>>, <<2, 1>>, <<1, 1>>} |-> 1]

\* Both tallies have been taken of the rows (1,2), (2,1), (1,1)
C9_Witness ==
    /\ analyzer.constructed
    /\ analyzer.combo_counts # None
    /\ analyzer.permutation_counts # None
    /\ AnalyzerTable.data = <<<<1, 2>>, <<2, 1>>, <<1, 1>>>>

============================================================================
